---- MODULE Spec2Model ----
(***************************************************************************)
(* Model of project_assistent: the Mapping Store (assistent_db.py) and the *)
(* Matcher (assistent_logic.py).                                           *)
(*                                                                         *)
(* The specifications of the module:                                       *)
(*   Spec       - the Mapping Store driven by arbitrary callers            *)
(*   SpecMatch  - one run of compare_files_1c_locman on bounded inputs     *)
(*   SpecRead   - one call of read_csv_file_simple, with a read failure    *)
(*   SpecConc   - two callers of save_mappings on the same database file   *)
(*   SpecTab    - a comparison run shown on the selection tab              *)
(*   SpecGui    - a wizard session: comparisons, selections, saves         *)
(*   SpecHandles - the store operations with their connections: opened,    *)
(*                used or failed, closed                                   *)
(***************************************************************************)
EXTENDS Integers, Sequences, FiniteSets, TLC

VARIABLES
    dbExists,   \* DB_PATH.exists()
    table,      \* committed rows of table "mappings"
    conns,      \* number of open sqlite3 connections
    clock,      \* datetime.now(), advanced by every save_mappings call
    pc,         \* "idle" or "saving" (inside save_mappings' try block)
    frame,      \* locals of the running save_mappings call
    txn,        \* rows as seen by the open transaction of save_mappings
    pre,        \* committed rows when the last mutating call started
    last,       \* the last completed save_mappings / delete_mappings call
    result,     \* the last completed read call since then (or none)
    mpc,        \* position of compare_files_1c_locman
    files,      \* file system: path -> rows of the CSV file
    file1_csv,  \* argument: path of the 1C file
    locman_csvs,\* argument: list of Locman paths
    data_1c,    \* rows read from the 1C file
    loc_entries,\* list of (name_loc, key_loc, loc_path)
    idx,        \* index of the next loc_entries element of the main loop
    matches,
    nomatches,
    nomatches_1c,
    locman_options,
    rfile,      \* the file read_csv_file_simple opens: its rows, where it fails
    rd,         \* read_csv_file_simple: position, the list rows, the outcome
    reported,   \* the calls of error_callback: (title, message)
    callers,    \* two concurrent save_mappings calls: each caller's frame
    writer,     \* the connection holding SQLite's write lock on the file
    commits,    \* the callers whose commit succeeded, in commit order
    overlap,    \* a call began while the other was in progress
    hnd,        \* a store operation other than save between open and close
    saved_mappings,         \* main: what load_mappings() returned at start
    selected_mappings,      \* main: identity -> set of chosen 1C names
    locman_to_1c_options,   \* main: identity -> candidate list of the run
    locman_list_tree,       \* the rows of the selection tab's list
    checkboxes_dict,        \* identity -> (1C name -> value of its checkbox)
    selection               \* the row the last on_locman_select handled

storeVars == <<dbExists, table, conns, clock, pc, frame, txn, pre, last,
               result>>
matchVars == <<mpc, files, file1_csv, locman_csvs, data_1c, loc_entries, idx,
               matches, nomatches, nomatches_1c, locman_options>>
readVars == <<rfile, rd, reported>>
concVars == <<callers, writer, commits, overlap>>
guiVars == <<saved_mappings, selected_mappings, locman_to_1c_options,
             locman_list_tree, checkboxes_dict, selection>>
vars == <<storeVars, matchVars, readVars, concVars, hnd, guiVars>>

(***************************************************************************)
(* Bounds                                                                  *)
(***************************************************************************)
MaxSaves == 2      \* save_mappings calls per behaviour

(***************************************************************************)
(* Mapping Store: values                                                   *)
(***************************************************************************)
NameLocs == {"", "A"}          \* name_loc values callers pass
LocPaths == {"P", "Q"}         \* loc_path values callers pass
OneCNames == {"c1", "c2"}      \* name_1c values callers pass
Identities == {"A"} \X LocPaths \* the identities callers save

\* Optional[str]: <<>> is None (argument omitted), <<s>> is the string s
Omitted == <<>>
OptionalOf(S) == {Omitted} \cup {<<s>> : s \in S}

\* Python truthiness of an Optional[str]: None and "" are falsy
Truthy(x) == x # Omitted /\ x[1] # ""

\* the values of save_mappings' argument: Dict[Tuple[str, str], Set[str]]
MappingArgs == UNION {[D -> SUBSET OneCNames] : D \in SUBSET Identities}

NoFrame == [mappings |-> <<>>, todo |-> {}, key |-> <<>>, pending |-> {},
            count |-> 0, current_time |-> 0]
NoCall == [op |-> "none"]

(***************************************************************************)
(* Mapping Store: SQL statements as operators on a set of rows             *)
(***************************************************************************)
IdentityOf(r) == <<r.name_loc, r.loc_path>>

\* WHERE name_loc = ? AND loc_path = ?
RowsWhere(rows, name_loc, loc_path) ==
    {r \in rows : r.name_loc = name_loc /\ r.loc_path = loc_path}

DeleteWhereNameOnly(rows, name_loc, loc_path) ==
    {r \in rows : r.name_loc # name_loc}

DeleteKeepsRows(rows, name_loc, loc_path) == rows

\* DELETE FROM mappings WHERE name_loc = ? AND loc_path = ?
DeleteWhere(rows, name_loc, loc_path) ==
    rows \ RowsWhere(rows, name_loc, loc_path)

\* UNIQUE(name_loc, loc_path, name_1c)
Conflicts(rows, name_loc, loc_path, name_1c) ==
    \E r \in rows : /\ r.name_loc = name_loc
                    /\ r.loc_path = loc_path
                    /\ r.name_1c = name_1c

\* the row INSERT creates; column id (the AUTOINCREMENT surrogate key) is read
\* by no statement of the module and is left out
NewRow(name_loc, loc_path, name_1c, current_time) ==
    [name_loc |-> name_loc, loc_path |-> loc_path,
     name_1c |-> name_1c, created_at |-> current_time,
     updated_at |-> current_time]

\* UPDATE mappings SET updated_at = ? WHERE name_loc = ? AND loc_path = ? AND name_1c = ?
UpdateTime(rows, name_loc, loc_path, name_1c, current_time) ==
    {IF r.name_loc = name_loc /\ r.loc_path = loc_path /\ r.name_1c = name_1c
        THEN [r EXCEPT !.updated_at = current_time]
        ELSE r : r \in rows}

RollbackKeepsWork(committed, working) == working

\* conn.rollback(): the transaction's work is discarded
Rollback(committed, working) == committed

\* conn.commit(): the transaction's work becomes the committed state
Commit(committed, working) == working

LoadKeepsOneName(rows) ==
    [k \in {IdentityOf(r) : r \in rows} |->
        {(CHOOSE r \in RowsWhere(rows, k[1], k[2]) : TRUE).name_1c}]

\* load_mappings on an existing database: rows grouped by identity
LoadMappings(rows) ==
    [k \in {IdentityOf(r) : r \in rows} |->
        {r.name_1c : r \in RowsWhere(rows, k[1], k[2])}]

\* get_mappings_for_locman on an existing database
GetMappingsForLocman(rows, name_loc, loc_path) ==
    {r.name_1c : r \in RowsWhere(rows, name_loc, loc_path)}

(***************************************************************************)
(* Mapping Store: operations                                               *)
(***************************************************************************)
CloseLeaks(n) == n

\* get_connection(): one more open connection
GetConnection(n) == n + 1

\* finally: conn.close()
CloseConnection(n) == n - 1

\* save_mappings up to the start of the loop: init_database(), get_connection()
SaveBegin(m) ==
    /\ pc = "idle"
    /\ clock < MaxSaves
    /\ dbExists' = TRUE
    /\ conns' = GetConnection(conns)
    /\ clock' = clock + 1
    /\ frame' = [mappings |-> m, todo |-> DOMAIN m, key |-> <<>>,
                 pending |-> {}, count |-> 0, current_time |-> clock + 1]
    /\ txn' = table
    /\ pre' = table
    /\ last' = NoCall
    /\ result' = NoCall
    /\ pc' = "saving"
    /\ UNCHANGED table

\* one iteration of the outer loop up to the inner loop: the DELETE
SaveDeleteOld ==
    /\ pc = "saving"
    /\ frame.pending = {}
    /\ \E k \in frame.todo :
          /\ txn' = DeleteWhere(txn, k[1], k[2])
          /\ frame' = [frame EXCEPT !.todo = @ \ {k}, !.key = k,
                                    !.pending = frame.mappings[k]]
    /\ UNCHANGED <<dbExists, table, conns, clock, pc, pre, last, result>>

\* one iteration of the inner loop: INSERT, or UPDATE on IntegrityError
SaveInsert ==
    /\ pc = "saving"
    /\ \E n \in frame.pending :
          LET k == frame.key IN
          IF ~Conflicts(txn, k[1], k[2], n)
          THEN /\ txn' = txn \cup {NewRow(k[1], k[2], n, frame.current_time)}
               /\ frame' = [frame EXCEPT !.pending = @ \ {n},
                                         !.count = @ + 1]
          ELSE /\ txn' = UpdateTime(txn, k[1], k[2], n, frame.current_time)
               /\ frame' = [frame EXCEPT !.pending = @ \ {n}]
    /\ UNCHANGED <<dbExists, table, conns, clock, pc, pre, last, result>>

\* conn.commit(); finally conn.close(); return count
SaveCommit ==
    /\ pc = "saving"
    /\ frame.pending = {}
    /\ frame.todo = {}
    /\ table' = Commit(table, txn)
    /\ conns' = CloseConnection(conns)
    /\ last' = [op |-> "save", status |-> "ok", arg |-> frame.mappings,
                ret |-> frame.count, dirty |-> txn # table,
                progress |-> Cardinality(DOMAIN frame.mappings \ frame.todo)]
    /\ frame' = NoFrame
    /\ txn' = {}
    /\ pc' = "idle"
    /\ UNCHANGED <<dbExists, clock, pre, result>>

\* a statement or the commit raises: except -> rollback, raise; finally close
SaveFail ==
    /\ pc = "saving"
    /\ table' = Rollback(table, txn)
    /\ conns' = CloseConnection(conns)
    /\ last' = [op |-> "save", status |-> "raised", arg |-> frame.mappings,
                ret |-> 0, dirty |-> txn # table,
                progress |-> Cardinality(DOMAIN frame.mappings \ frame.todo)]
    /\ frame' = NoFrame
    /\ txn' = {}
    /\ pc' = "idle"
    /\ UNCHANGED <<dbExists, clock, pre, result>>

\* delete_mappings(name_loc, loc_path)
DeleteMappings(name_loc, loc_path) ==
    /\ pc = "idle"
    /\ pre' = table
    /\ result' = NoCall
    /\ IF ~dbExists
       THEN /\ last' = [op |-> "delete", status |-> "ok",
                        name_loc |-> name_loc, loc_path |-> loc_path,
                        ret |-> 0]
            /\ table' = table
       ELSE LET removed == IF Truthy(name_loc) /\ Truthy(loc_path)
                           THEN RowsWhere(table, name_loc[1], loc_path[1])
                           ELSE table
            IN /\ table' = table \ removed
               /\ last' = [op |-> "delete", status |-> "ok",
                           name_loc |-> name_loc, loc_path |-> loc_path,
                           ret |-> Cardinality(removed)]
    /\ UNCHANGED <<dbExists, conns, clock, pc, frame, txn>>

\* load_mappings()
LoadCall ==
    /\ pc = "idle"
    /\ result' = [op |-> "load",
                  value |-> IF dbExists THEN LoadMappings(table) ELSE <<>>]
    /\ UNCHANGED <<dbExists, table, conns, clock, pc, frame, txn, pre, last>>

\* get_mappings_for_locman(name_loc, loc_path)
GetCall(name_loc, loc_path) ==
    /\ pc = "idle"
    /\ result' = [op |-> "get", name_loc |-> name_loc, loc_path |-> loc_path,
                  value |-> IF dbExists
                            THEN GetMappingsForLocman(table, name_loc, loc_path)
                            ELSE {}]
    /\ UNCHANGED <<dbExists, table, conns, clock, pc, frame, txn, pre, last>>

\* get_all_mappings_count()
CountCall ==
    /\ pc = "idle"
    /\ result' = [op |-> "count",
                  value |-> IF dbExists THEN Cardinality(table) ELSE 0]
    /\ UNCHANGED <<dbExists, table, conns, clock, pc, frame, txn, pre, last>>

(***************************************************************************)
(* The connection of the operations: get_connection, try, finally close    *)
(***************************************************************************)
NoOp == [at |-> "idle", op |-> "none", name_loc |-> Omitted,
         loc_path |-> Omitted, outcome |-> "none"]

\* the operations that open a connection only when the database file exists
Guarded == {"load", "get", "delete", "count"}

\* "conn = get_connection()" of an operation; init_database creates the
\* file, the others return before it when the file does not exist
OpOpen(op, name_loc, loc_path) ==
    /\ pc = "idle"
    /\ hnd.at = "idle"
    /\ op \in Guarded => dbExists
    /\ dbExists' = TRUE
    /\ conns' = GetConnection(conns)
    /\ hnd' = [at |-> "try", op |-> op, name_loc |-> name_loc,
               loc_path |-> loc_path, outcome |-> "none"]
    /\ UNCHANGED <<table, clock, pc, frame, txn, pre, last, result>>

\* "if not DB_PATH.exists(): return": no connection is opened
OpReturnEarly(op, name_loc, loc_path) ==
    /\ hnd.at = "idle"
    /\ ~dbExists
    /\ CASE op = "load" -> LoadCall
         [] op = "get" -> GetCall(name_loc[1], loc_path[1])
         [] op = "delete" -> DeleteMappings(name_loc, loc_path)
         [] op = "count" -> CountCall
    /\ hnd' = [NoOp EXCEPT !.op = op, !.outcome = "returned"]

\* the try block runs to its end
OpBody ==
    /\ hnd.at = "try"
    /\ CASE hnd.op = "init" ->
                UNCHANGED <<dbExists, table, conns, clock, pc, frame, txn,
                            pre, last, result>>
         [] hnd.op = "load" -> LoadCall
         [] hnd.op = "get" -> GetCall(hnd.name_loc[1], hnd.loc_path[1])
         [] hnd.op = "delete" -> DeleteMappings(hnd.name_loc, hnd.loc_path)
         [] hnd.op = "count" -> CountCall
    /\ hnd' = [hnd EXCEPT !.at = "finally", !.outcome = "returned"]

\* a statement of the try block raises: there is no except branch, the
\* uncommitted work is dropped with the connection
OpRaise ==
    /\ hnd.at = "try"
    /\ hnd' = [hnd EXCEPT !.at = "finally", !.outcome = "raised"]
    /\ UNCHANGED storeVars

\* finally: conn.close(), then the return or the exception reaches the caller
OpClose ==
    /\ hnd.at = "finally"
    /\ conns' = CloseConnection(conns)
    /\ hnd' = [NoOp EXCEPT !.op = hnd.op, !.outcome = hnd.outcome]
    /\ UNCHANGED <<dbExists, table, clock, pc, frame, txn, pre, last, result>>

(***************************************************************************)
(* Matcher: strings are sequences of characters                            *)
(***************************************************************************)
MaxRows == 3       \* data rows of the 1C file and the Locman files together

Rest(s) == IF s = <<>> THEN <<>> ELSE Tail(s)      \* s[1:]

\* the characters str.split() splits on
IsSpace(c) == c = " "

LowerChar(c) ==
    CASE c = "A" -> "a"
      [] c = "B" -> "b"
      [] c = "K" -> "k"
      [] OTHER -> c

\* str.lower()
Lower(s) == [i \in 1..Len(s) |-> LowerChar(s[i])]

\* str.split(): the maximal runs of non-whitespace characters
RECURSIVE SplitFrom(_, _, _)
SplitFrom(s, i, cur) ==
    IF i > Len(s)
    THEN IF cur = <<>> THEN <<>> ELSE <<cur>>
    ELSE IF IsSpace(s[i])
         THEN IF cur = <<>>
              THEN SplitFrom(s, i + 1, <<>>)
              ELSE <<cur>> \o SplitFrom(s, i + 1, <<>>)
         ELSE SplitFrom(s, i + 1, Append(cur, s[i]))

Split(s) == SplitFrom(s, 1, <<>>)

\* " ".join(words)
RECURSIVE Join(_)
Join(words) ==
    IF words = <<>> THEN <<>>
    ELSE IF Len(words) = 1 THEN words[1]
    ELSE words[1] \o <<" ">> \o Join(Tail(words))

normalize_string(s) == IF s = <<>> THEN <<>> ELSE Join(Split(Lower(s)))

\* Python's "sub in s" on strings
Contains(sub, s) ==
    \E i \in 0..(Len(s) - Len(sub)) : SubSeq(s, i + 1, i + Len(sub)) = sub

\* str(c).strip() == ""
IsBlank(c) == \A i \in 1..Len(c) : IsSpace(c[i])

\* the text "Куда входит", written with two characters
Marker == <<"K", "v">>

\* read_csv_file_simple: the rows of the file without the fully blank ones
read_csv_file_simple(rows) ==
    SelectSeq(rows, LAMBDA r : ~(r = <<>> \/ \A i \in 1..Len(r) : IsBlank(r[i])))

LocRowPassesNoFifth(row) ==
    /\ ~(\E i \in 1..Len(row) : Contains(Marker, row[i]))
    /\ Len(row) >= 5
    /\ normalize_string(row[2]) # <<>>

\* the filter of the Locman loop: no marker, 5 columns, 5th not blank, a key
LocRowPasses(row) ==
    /\ ~(\E i \in 1..Len(row) : Contains(Marker, row[i]))
    /\ Len(row) >= 5
    /\ ~IsBlank(row[5])
    /\ Len(row) >= 2
    /\ normalize_string(row[2]) # <<>>

\* the entries one Locman file contributes: (name_loc, key_loc, loc_path)
EntriesOfFile(data_loc, loc_path) ==
    LET kept == SelectSeq(Rest(data_loc), LocRowPasses)
    IN [i \in 1..Len(kept) |->
           <<kept[i][2], normalize_string(kept[i][2]), loc_path>>]

RECURSIVE BuildEntries(_, _)
BuildEntries(fs, paths) ==
    IF paths = <<>> THEN <<>>
    ELSE EntriesOfFile(read_csv_file_simple(fs[Head(paths)]), Head(paths))
            \o BuildEntries(fs, Tail(paths))

\* the filter of both 1C loops: 2 columns and a non-empty key
OneCRowPasses(row1) == Len(row1) >= 2 /\ normalize_string(row1[2]) # <<>>

KeysMatchOneWay(key_loc, key_1c) == Contains(key_loc, key_1c)

\* key_loc in key_1c or key_1c in key_loc
KeysMatch(key_loc, key_1c) ==
    Contains(key_loc, key_1c) \/ Contains(key_1c, key_loc)

\* the names of the 1C rows the inner loop matches with key_loc, in row order
MatchedNames(data, key_loc) ==
    LET hits == SelectSeq(Rest(data),
                    LAMBDA row1 : /\ OneCRowPasses(row1)
                                  /\ KeysMatch(key_loc, normalize_string(row1[2])))
    IN [i \in 1..Len(hits) |-> hits[i][2]]

InSeq(x, s) == \E i \in 1..Len(s) : s[i] = x

AppendAlways(options, names) == options \o names

\* "if name_1c not in locman_options[loc_key]: append", for each matched name
RECURSIVE AppendNew(_, _)
AppendNew(options, names) ==
    IF names = <<>> THEN options
    ELSE AppendNew(IF InSeq(Head(names), options)
                   THEN options ELSE Append(options, Head(names)),
                   Tail(names))

AddNomatchAlways(found, list, name_loc, loc_path) ==
    Append(list, <<name_loc, loc_path>>)

\* "if not found: nomatches.append((name_loc, loc_path))"
AddNomatch(found, list, name_loc, loc_path) ==
    IF ~found THEN Append(list, <<name_loc, loc_path>>) ELSE list

\* the second pass: the names of the 1C rows no Locman entry matches
Unmatched1C(data, entries) ==
    LET lost == SelectSeq(Rest(data),
                    LAMBDA row1 :
                        /\ OneCRowPasses(row1)
                        /\ ~\E i \in 1..Len(entries) :
                              KeysMatch(entries[i][2], normalize_string(row1[2])))
    IN [i \in 1..Len(lost) |-> lost[i][2]]

(***************************************************************************)
(* Matcher: compare_files_1c_locman, one action per loop                   *)
(***************************************************************************)
\* the reads and the loop that collects loc_entries
ReadInputs ==
    /\ mpc = "start"
    /\ data_1c' = read_csv_file_simple(files[file1_csv])
    /\ loc_entries' = BuildEntries(files, locman_csvs)
    /\ idx' = 1
    /\ mpc' = "loop"
    /\ UNCHANGED <<files, file1_csv, locman_csvs, matches, nomatches,
                   nomatches_1c, locman_options>>

\* one iteration of the loop over loc_entries
MatchEntry ==
    /\ mpc = "loop"
    /\ idx <= Len(loc_entries)
    /\ LET name_loc == loc_entries[idx][1]
           key_loc == loc_entries[idx][2]
           loc_path == loc_entries[idx][3]
           loc_key == <<name_loc, loc_path>>
           opts == IF loc_key \in DOMAIN locman_options
                   THEN locman_options
                   ELSE locman_options @@ (loc_key :> <<>>)
           names == MatchedNames(data_1c, key_loc)
       IN /\ matches' = matches \o
                 [i \in 1..Len(names) |-> <<names[i], name_loc, loc_path>>]
          /\ locman_options' =
                 [opts EXCEPT ![loc_key] = AppendNew(opts[loc_key], names)]
          /\ nomatches' = AddNomatch(names # <<>>, nomatches, name_loc, loc_path)
    /\ idx' = idx + 1
    /\ UNCHANGED <<mpc, files, file1_csv, locman_csvs, data_1c, loc_entries,
                   nomatches_1c>>

\* the loop over the 1C rows, and the return
ScanOneC ==
    /\ mpc = "loop"
    /\ idx > Len(loc_entries)
    /\ nomatches_1c' = Unmatched1C(data_1c, loc_entries)
    /\ mpc' = "done"
    /\ UNCHANGED <<files, file1_csv, locman_csvs, data_1c, loc_entries, idx,
                   matches, nomatches, locman_options>>

(***************************************************************************)
(* Matcher: the inputs                                                     *)
(***************************************************************************)
X == <<"x">>
Y == <<"y">>
Name1C_AB == <<"A", " ", " ", "b">>    \* key "a b"
Name1C_B == <<" ", "B">>               \* key "b"
NameLoc_A == <<"a">>                   \* key "a"
NameLoc_AB == <<"a", " ", "B">>        \* key "a b"

Header1C == <<X, Name1C_AB>>
HeaderLoc == <<X, NameLoc_A, X, X, Y>>

OneCRows ==
    { <<X>>,                 \* one column
      <<X, Name1C_AB>>,
      <<X, Name1C_B>>,
      <<X, <<" ">>>>,        \* a blank name
      <<<<>>, <<" ">>>> }    \* a fully blank row

LocRows ==
    { <<X, NameLoc_A, X, X, Y>>,
      <<X, NameLoc_AB, X, X, Y>>,
      <<X, NameLoc_A, X, X>>,                    \* 4 columns
      <<X, NameLoc_A, X, X, <<" ">>>>,           \* blank 5th column
      <<X, NameLoc_A, <<"x", "K", "v">>, X, Y>>, \* the marker in a cell
      <<X, <<" ">>, X, X, Y>> }                  \* a blank name

\* a file: empty, or a header row and n data rows
FilesOf(header, rows, n) ==
    {<<header>> \o d : d \in [1..n -> rows]}
        \cup (IF n = 0 THEN {<<>>} ELSE {})

MatchInit ==
    /\ mpc = "start"
    /\ file1_csv = "F1"
    /\ \E n1 \in 0..MaxRows :
       \E np \in 0..(MaxRows - n1) :
       \E f1 \in FilesOf(Header1C, OneCRows, n1),
          fp \in FilesOf(HeaderLoc, LocRows, np) :
          \/ /\ locman_csvs = <<"P">>
             /\ files = ("F1" :> f1 @@ "P" :> fp)
          \/ /\ locman_csvs = <<"P", "Q">>
             /\ \E nq \in 0..(MaxRows - n1 - np) :
                \E fq \in FilesOf(HeaderLoc, LocRows, nq) :
                   files = ("F1" :> f1 @@ "P" :> fp @@ "Q" :> fq)
    /\ data_1c = <<>>
    /\ loc_entries = <<>>
    /\ idx = 0
    /\ matches = <<>>
    /\ nomatches = <<>>
    /\ nomatches_1c = <<>>
    /\ locman_options = <<>>

(***************************************************************************)
(* Tabular Reader: read_csv_file_simple, one action per row                *)
(***************************************************************************)
NoFailure == 0 - 1     \* failAt of a file that is read to its end

\* "if not r or all(... str(c).strip() == '' for c in r): continue"
RowIsBlank(r) == r = <<>> \/ \A i \in 1..Len(r) : IsBlank(r[i])

\* one iteration of "for r in reader": the row is kept unless blank
ReadRow ==
    /\ rd.at = "reading"
    /\ rd.pos < Len(rfile.rows)
    /\ rd.pos # rfile.failAt
    /\ LET r == rfile.rows[rd.pos + 1] IN
         rd' = [rd EXCEPT !.pos = @ + 1,
                          !.rows = IF RowIsBlank(r) THEN @ ELSE Append(@, r)]
    /\ UNCHANGED <<rfile, reported>>

\* open() or the decoding of the next line raises: except Exception, the
\* callback is called when there is one, and "return rows" follows
ReadRaise ==
    /\ rd.at = "reading"
    /\ rd.pos = rfile.failAt
    /\ reported' = IF rfile.callback
                   THEN Append(reported, <<"CSV read error", rfile.path>>)
                   ELSE reported
    /\ rd' = [rd EXCEPT !.at = "returned", !.failed = TRUE, !.ret = rd.rows]
    /\ UNCHANGED rfile

\* the file ends: return rows
ReadReturn ==
    /\ rd.at = "reading"
    /\ rd.pos = Len(rfile.rows)
    /\ rd.pos # rfile.failAt
    /\ rd' = [rd EXCEPT !.at = "returned", !.ret = rd.rows]
    /\ UNCHANGED <<rfile, reported>>

ReadIdle ==
    /\ rfile = [path |-> "", rows |-> <<>>, failAt |-> NoFailure,
                callback |-> FALSE]
    /\ rd = [at |-> "off", pos |-> 0, rows |-> <<>>, failed |-> FALSE,
             ret |-> <<>>]
    /\ reported = <<>>

\* the call: rows = []
ReadInit ==
    /\ \E n \in 0..MaxRows :
       \E rows \in [1..n -> OneCRows], f \in {NoFailure} \cup 0..n,
          cb \in BOOLEAN :
          rfile = [path |-> "F1", rows |-> rows, failAt |-> f, callback |-> cb]
    /\ rd = [at |-> "reading", pos |-> 0, rows |-> <<>>, failed |-> FALSE,
             ret |-> <<>>]
    /\ reported = <<>>

(***************************************************************************)
(* Two callers of save_mappings: each has its own connection to the file   *)
(***************************************************************************)
Callers == {"t1", "t2"}
NoCaller == "none"

NotCalled == [at |-> "idle", mappings |-> <<>>, todo |-> {}, key |-> <<>>,
              pending |-> {}, count |-> 0, current_time |-> 0, txn |-> {}]

InProgress(c) == callers[c].at \in {"begun", "writing"}

CanWriteAlways(holder, c) == TRUE

\* the first DELETE of a connection's transaction takes SQLite's write lock
\* on the file; it is granted iff no other connection holds it
CanWrite(holder, c) == holder = NoCaller \/ holder = c

\* save_mappings up to the start of the loop: init_database(), get_connection()
CallBegin(c, m) ==
    /\ callers[c].at = "idle"
    /\ dbExists' = TRUE
    /\ conns' = GetConnection(conns)
    /\ clock' = clock + 1
    /\ callers' = [callers EXCEPT ![c] =
          [at |-> "begun", mappings |-> m, todo |-> DOMAIN m, key |-> <<>>,
           pending |-> {}, count |-> 0, current_time |-> clock + 1,
           txn |-> {}]]
    /\ overlap' = (overlap \/ \E d \in Callers \ {c} : InProgress(d))
    /\ UNCHANGED <<table, writer, commits>>

\* the DELETE of an identity; the first one opens the transaction on the
\* committed rows and waits until the write lock is free
CallDeleteOld(c) ==
    /\ InProgress(c)
    /\ callers[c].pending = {}
    /\ CanWrite(writer, c)
    /\ \E k \in callers[c].todo :
          LET rows == IF callers[c].at = "begun" THEN table
                                                 ELSE callers[c].txn
          IN callers' = [callers EXCEPT ![c] =
                [@ EXCEPT !.at = "writing", !.todo = @ \ {k}, !.key = k,
                          !.pending = callers[c].mappings[k],
                          !.txn = DeleteWhere(rows, k[1], k[2])]]
    /\ writer' = c
    /\ UNCHANGED <<dbExists, table, conns, clock, commits, overlap>>

\* one iteration of the inner loop: INSERT, or UPDATE on IntegrityError
CallInsert(c) ==
    /\ callers[c].at = "writing"
    /\ \E n \in callers[c].pending :
          LET f == callers[c]
              k == f.key
          IN IF ~Conflicts(f.txn, k[1], k[2], n)
             THEN callers' = [callers EXCEPT ![c] =
                     [@ EXCEPT !.pending = @ \ {n}, !.count = @ + 1,
                               !.txn = f.txn \cup
                                   {NewRow(k[1], k[2], n, f.current_time)}]]
             ELSE callers' = [callers EXCEPT ![c] =
                     [@ EXCEPT !.pending = @ \ {n},
                               !.txn = UpdateTime(f.txn, k[1], k[2], n,
                                                  f.current_time)]]
    /\ UNCHANGED <<dbExists, table, conns, clock, writer, commits, overlap>>

\* conn.commit() releases the lock; finally conn.close(); return count
CallCommit(c) ==
    /\ InProgress(c)
    /\ callers[c].pending = {}
    /\ callers[c].todo = {}
    /\ table' = IF callers[c].at = "writing"
                THEN Commit(table, callers[c].txn) ELSE table
    /\ writer' = IF writer = c THEN NoCaller ELSE writer
    /\ conns' = CloseConnection(conns)
    /\ commits' = Append(commits, c)
    /\ callers' = [callers EXCEPT ![c] = [@ EXCEPT !.at = "ok", !.txn = {}]]
    /\ UNCHANGED <<dbExists, clock, overlap>>

\* a statement raises (a wait for the lock that timed out included):
\* except -> rollback, raise; finally close
CallFail(c) ==
    /\ InProgress(c)
    /\ table' = IF callers[c].at = "writing"
                THEN Rollback(table, callers[c].txn) ELSE table
    /\ writer' = IF writer = c THEN NoCaller ELSE writer
    /\ conns' = CloseConnection(conns)
    /\ callers' = [callers EXCEPT ![c] =
                      [@ EXCEPT !.at = "raised", !.txn = {}]]
    /\ UNCHANGED <<dbExists, clock, commits, overlap>>

ConcIdle ==
    /\ callers = [c \in Callers |-> NotCalled]
    /\ writer = NoCaller
    /\ commits = <<>>
    /\ overlap = FALSE

(***************************************************************************)
(* The wizard: main, step1_next, on_locman_select, save_selections         *)
(***************************************************************************)
TabRowsMatched(nomatch_list, match_list) ==
    [i \in 1..Len(match_list) |-> <<match_list[i][2], match_list[i][3]>>]

\* "for name_loc, loc_path in nomatches: locman_list_tree.insert(...)"
TabRows(nomatch_list, match_list) == nomatch_list

OptionsAlwaysOne(options, loc_key) == <<Name1C_B>>

\* locman_to_1c_options.get(loc_key, [])
OptionsFor(options, loc_key) ==
    IF loc_key \in DOMAIN options THEN options[loc_key] ELSE <<>>

\* the values of a sequence
Elements(seq) == {seq[i] : i \in 1..Len(seq)}

\* step1_next up to the call of compare_files_1c_locman on the chosen files
Step1Begin(fs, paths) ==
    /\ pc = "idle"
    /\ mpc \in {"off", "shown"}
    /\ mpc' = "start"
    /\ file1_csv' = "F1"
    /\ locman_csvs' = paths
    /\ files' = fs
    /\ data_1c' = <<>>
    /\ loc_entries' = <<>>
    /\ idx' = 0
    /\ matches' = <<>>
    /\ nomatches' = <<>>
    /\ nomatches_1c' = <<>>
    /\ locman_options' = <<>>
    /\ UNCHANGED guiVars

\* step1_next after the comparison: the options are kept, the list of the
\* selection tab is emptied and filled again
Step1Show ==
    /\ mpc = "done"
    /\ mpc' = "shown"
    /\ locman_to_1c_options' = locman_options
    /\ locman_list_tree' = TabRows(nomatches, matches)
    /\ selection' = <<>>
    /\ UNCHANGED <<files, file1_csv, locman_csvs, data_1c, loc_entries, idx,
                   matches, nomatches, nomatches_1c, locman_options,
                   saved_mappings, selected_mappings, checkboxes_dict>>

\* on_locman_select for row i of the list; the row's values are the strings
\* that were inserted
OnLocmanSelect(i) ==
    /\ pc = "idle"
    /\ mpc = "shown"
    /\ i \in 1..Len(locman_list_tree)
    /\ LET loc_key == locman_list_tree[i]
           options == OptionsFor(locman_to_1c_options, loc_key)
           db_mappings == IF dbExists
                          THEN GetMappingsForLocman(table, loc_key[1],
                                                    loc_key[2])
                          ELSE {}
           chosen == IF loc_key \in DOMAIN selected_mappings
                     THEN selected_mappings
                     ELSE selected_mappings @@ (loc_key :> db_mappings)
       IN /\ selection' = loc_key
          /\ IF options = <<>>
             THEN /\ checkboxes_dict' = <<>>
                  /\ selected_mappings' = selected_mappings
             ELSE /\ selected_mappings' = chosen
                  /\ checkboxes_dict' =
                        (loc_key :> [n \in Elements(options) |->
                               IF n \in chosen[loc_key] THEN "1" ELSE ""])
    /\ UNCHANGED <<saved_mappings, locman_to_1c_options, locman_list_tree>>

\* save_selections up to the loop of save_mappings; ticked is what the
\* checkboxes hold when the button is pressed, the user's clicks included
SaveSelections(ticked) ==
    /\ mpc = "shown"
    /\ DOMAIN ticked = DOMAIN checkboxes_dict
    /\ \A k \in DOMAIN ticked : ticked[k] \subseteq DOMAIN checkboxes_dict[k]
    /\ selected_mappings' =
          [k \in DOMAIN selected_mappings \cup DOMAIN ticked |->
              IF k \in DOMAIN ticked THEN ticked[k] ELSE selected_mappings[k]]
    /\ SaveBegin(selected_mappings')
    /\ UNCHANGED <<saved_mappings, locman_to_1c_options, locman_list_tree,
                   checkboxes_dict, selection>>

\* the sets the user can have ticked
Tickings ==
    UNION {[D -> SUBSET {Name1C_AB, Name1C_B}] :
              D \in SUBSET ({NameLoc_A, NameLoc_AB} \X {"P"})}

\* main before the window opens, on a store without a database file
GuiIdle ==
    /\ saved_mappings = <<>>
    /\ selected_mappings = <<>>
    /\ locman_to_1c_options = <<>>
    /\ locman_list_tree = <<>>
    /\ checkboxes_dict = <<>>
    /\ selection = <<>>

\* the rows a store can hold when a session starts
StoredRows ==
    { {},
      {NewRow(NameLoc_A, "P", Name1C_AB, 0)},
      {NewRow(NameLoc_A, "P", Name1C_AB, 0),
       NewRow(NameLoc_AB, "P", Name1C_AB, 0),
       NewRow(NameLoc_AB, "P", Name1C_B, 0)} }

\* main: init_database(), saved_mappings = load_mappings(),
\* selected_mappings = saved_mappings.copy()
GuiInit ==
    /\ dbExists = TRUE
    /\ table \in StoredRows
    /\ conns = 0
    /\ clock = 0
    /\ pc = "idle"
    /\ frame = NoFrame
    /\ txn = {}
    /\ pre = {}
    /\ last = NoCall
    /\ result = NoCall
    /\ saved_mappings = LoadMappings(table)
    /\ selected_mappings = saved_mappings
    /\ locman_to_1c_options = <<>>
    /\ locman_list_tree = <<>>
    /\ checkboxes_dict = <<>>
    /\ selection = <<>>

\* the files of a session's comparisons: a 1C file of at most one name, a
\* Locman file of one or two rows
GuiInputs ==
    {("F1" :> f1 @@ "P" :> fp) :
        f1 \in FilesOf(Header1C, {<<X, Name1C_AB>>, <<X, Name1C_B>>}, 0)
               \cup FilesOf(Header1C, {<<X, Name1C_AB>>, <<X, Name1C_B>>}, 1),
        fp \in FilesOf(HeaderLoc, {<<X, NameLoc_A, X, X, Y>>,
                                   <<X, NameLoc_AB, X, X, Y>>}, 1)
               \cup FilesOf(HeaderLoc, {<<X, NameLoc_A, X, X, Y>>,
                                        <<X, NameLoc_AB, X, X, Y>>}, 2)}

MatchIdle ==
    /\ mpc = "off"
    /\ files = <<>>
    /\ file1_csv = ""
    /\ locman_csvs = <<>>
    /\ data_1c = <<>>
    /\ loc_entries = <<>>
    /\ idx = 0
    /\ matches = <<>>
    /\ nomatches = <<>>
    /\ nomatches_1c = <<>>
    /\ locman_options = <<>>

StoreInit ==
    /\ dbExists = FALSE
    /\ table = {}
    /\ conns = 0
    /\ clock = 0
    /\ pc = "idle"
    /\ frame = NoFrame
    /\ txn = {}
    /\ pre = {}
    /\ last = NoCall
    /\ result = NoCall

Init == StoreInit /\ MatchIdle /\ ReadIdle /\ ConcIdle /\ hnd = NoOp /\ GuiIdle

Next ==
    \/ (\E m \in MappingArgs : SaveBegin(m)) /\ UNCHANGED <<matchVars, readVars, concVars, hnd, guiVars>>
    \/ SaveDeleteOld /\ UNCHANGED <<matchVars, readVars, concVars, hnd, guiVars>>
    \/ SaveInsert /\ UNCHANGED <<matchVars, readVars, concVars, hnd, guiVars>>
    \/ SaveCommit /\ UNCHANGED <<matchVars, readVars, concVars, hnd, guiVars>>
    \/ SaveFail /\ UNCHANGED <<matchVars, readVars, concVars, hnd, guiVars>>
    \/ (\E n \in OptionalOf(NameLocs), p \in OptionalOf(LocPaths) :
           DeleteMappings(n, p)) /\ UNCHANGED <<matchVars, readVars, concVars, hnd, guiVars>>
    \/ LoadCall /\ UNCHANGED <<matchVars, readVars, concVars, hnd, guiVars>>
    \/ (\E k \in Identities : GetCall(k[1], k[2])) /\ UNCHANGED <<matchVars, readVars, concVars, hnd, guiVars>>
    \/ CountCall /\ UNCHANGED <<matchVars, readVars, concVars, hnd, guiVars>>

Spec == Init /\ [][Next]_vars

InitMatch == StoreInit /\ MatchInit /\ ReadIdle /\ ConcIdle /\ hnd = NoOp /\ GuiIdle

NextMatch ==
    \/ ReadInputs /\ UNCHANGED <<storeVars, readVars, concVars, hnd, guiVars>>
    \/ MatchEntry /\ UNCHANGED <<storeVars, readVars, concVars, hnd, guiVars>>
    \/ ScanOneC /\ UNCHANGED <<storeVars, readVars, concVars, hnd, guiVars>>

SpecMatch == InitMatch /\ [][NextMatch]_vars

InitRead == StoreInit /\ MatchIdle /\ ReadInit /\ ConcIdle /\ hnd = NoOp /\ GuiIdle

NextRead ==
    \/ ReadRow /\ UNCHANGED <<storeVars, matchVars, concVars, hnd, guiVars>>
    \/ ReadRaise /\ UNCHANGED <<storeVars, matchVars, concVars, hnd, guiVars>>
    \/ ReadReturn /\ UNCHANGED <<storeVars, matchVars, concVars, hnd, guiVars>>

SpecRead == InitRead /\ [][NextRead]_vars

callVars == <<pc, frame, txn, pre, last, result>>

InitConc == StoreInit /\ MatchIdle /\ ReadIdle /\ ConcIdle /\ hnd = NoOp /\ GuiIdle

NextConc ==
    \/ (\E c \in Callers, m \in MappingArgs : CallBegin(c, m))
          /\ UNCHANGED <<callVars, matchVars, readVars, hnd, guiVars>>
    \/ (\E c \in Callers : CallDeleteOld(c))
          /\ UNCHANGED <<callVars, matchVars, readVars, hnd, guiVars>>
    \/ (\E c \in Callers : CallInsert(c))
          /\ UNCHANGED <<callVars, matchVars, readVars, hnd, guiVars>>
    \/ (\E c \in Callers : CallCommit(c))
          /\ UNCHANGED <<callVars, matchVars, readVars, hnd, guiVars>>
    \/ (\E c \in Callers : CallFail(c))
          /\ UNCHANGED <<callVars, matchVars, readVars, hnd, guiVars>>

SpecConc == InitConc /\ [][NextConc]_vars

otherVars == <<matchVars, readVars, concVars, guiVars>>

OpArgs ==
    {<<"init", Omitted, Omitted>>, <<"load", Omitted, Omitted>>,
     <<"count", Omitted, Omitted>>, <<"get", <<"A">>, <<"P">>>>}
    \cup ({"delete"} \X OptionalOf(NameLocs) \X OptionalOf(LocPaths))

\* the arguments of save_mappings here: maps of at most one identity
OneKeyArgs == {m \in MappingArgs : Cardinality(DOMAIN m) <= 1}

InitHandles == StoreInit /\ MatchIdle /\ ReadIdle /\ ConcIdle /\ hnd = NoOp /\ GuiIdle

NextHandles ==
    \/ (\E m \in OneKeyArgs : hnd.at = "idle" /\ SaveBegin(m))
          /\ UNCHANGED <<otherVars, hnd>>
    \/ SaveDeleteOld /\ UNCHANGED <<otherVars, hnd>>
    \/ SaveInsert /\ UNCHANGED <<otherVars, hnd>>
    \/ SaveCommit /\ UNCHANGED <<otherVars, hnd>>
    \/ SaveFail /\ UNCHANGED <<otherVars, hnd>>
    \/ (\E a \in OpArgs : OpOpen(a[1], a[2], a[3])) /\ UNCHANGED otherVars
    \/ (\E a \in OpArgs : a[1] \in Guarded /\ OpReturnEarly(a[1], a[2], a[3]))
          /\ UNCHANGED otherVars
    \/ OpBody /\ UNCHANGED otherVars
    \/ OpRaise /\ UNCHANGED otherVars
    \/ OpClose /\ UNCHANGED otherVars

SpecHandles == InitHandles /\ [][NextHandles]_vars

tabRest == <<storeVars, readVars, concVars, hnd>>

InitTab == StoreInit /\ MatchInit /\ ReadIdle /\ ConcIdle /\ hnd = NoOp /\ GuiIdle

NextTab ==
    \/ ReadInputs /\ UNCHANGED <<tabRest, guiVars>>
    \/ MatchEntry /\ UNCHANGED <<tabRest, guiVars>>
    \/ ScanOneC /\ UNCHANGED <<tabRest, guiVars>>
    \/ Step1Show /\ UNCHANGED tabRest
    \/ (\E i \in 1..MaxRows : OnLocmanSelect(i))
          /\ UNCHANGED <<tabRest, matchVars>>

SpecTab == InitTab /\ [][NextTab]_vars

guiRest == <<readVars, concVars, hnd>>

InitGui == GuiInit /\ MatchIdle /\ ReadIdle /\ ConcIdle /\ hnd = NoOp

NextGui ==
    \/ (\E fs \in GuiInputs : Step1Begin(fs, <<"P">>))
          /\ UNCHANGED <<storeVars, guiRest>>
    \/ ReadInputs /\ UNCHANGED <<storeVars, guiRest, guiVars>>
    \/ MatchEntry /\ UNCHANGED <<storeVars, guiRest, guiVars>>
    \/ ScanOneC /\ UNCHANGED <<storeVars, guiRest, guiVars>>
    \/ Step1Show /\ UNCHANGED <<storeVars, guiRest>>
    \/ (\E i \in 1..MaxRows : OnLocmanSelect(i))
          /\ UNCHANGED <<storeVars, matchVars, guiRest>>
    \/ (\E ticked \in Tickings : SaveSelections(ticked))
          /\ UNCHANGED <<matchVars, guiRest>>
    \/ SaveDeleteOld /\ UNCHANGED <<matchVars, guiRest, guiVars>>
    \/ SaveInsert /\ UNCHANGED <<matchVars, guiRest, guiVars>>
    \/ SaveCommit /\ UNCHANGED <<matchVars, guiRest, guiVars>>
    \/ SaveFail /\ UNCHANGED <<matchVars, guiRest, guiVars>>

SpecGui == InitGui /\ [][NextGui]_vars

(***************************************************************************)
(* Claims about the Mapping Store (checked under Spec)                     *)
(***************************************************************************)
SavedOk == last.op = "save" /\ last.status = "ok"
SaveRaised == last.op = "save" /\ last.status = "raised"

\* dict.get(k, set()) on a loaded map
Lookup(m, k) == IF k \in DOMAIN m THEN m[k] ELSE {}

\* the entries of a mappings argument whose set is not empty
NonEmptyPart(m) == [k \in {i \in DOMAIN m : m[i] # {}} |-> m[k]]

\* C1 as stated: after save_mappings(m) on an empty store, load_mappings()
\* returns a map equal to m, identities with an empty set included.
C1_RoundTripAsStated ==
    (result.op = "load" /\ SavedOk /\ pre = {}) => result.value = last.arg

\* C1 amended: after save_mappings(m) on an empty store, load_mappings()
\* returns m restricted to the identities whose set is not empty, each with an
\* equal set of 1C names; an identity saved with the empty set is not a key.
C1_RoundTrip ==
    (result.op = "load" /\ SavedOk /\ pre = {})
        => result.value = NonEmptyPart(last.arg)

C1_Witness ==
    /\ result.op = "load" /\ SavedOk /\ pre = {}
    /\ \E k \in DOMAIN last.arg : last.arg[k] = OneCNames
    /\ \E k \in DOMAIN last.arg : last.arg[k] = {}

\* C2: after a successful save_mappings, for every identity of the argument
\* the names returned by get_mappings_for_locman and by load_mappings are
\* exactly the argument's set: no name recorded before survives outside it.
C2_ResaveReplaces ==
    SavedOk =>
        /\ (result.op = "get" /\ <<result.name_loc, result.loc_path>>
                                    \in DOMAIN last.arg)
              => result.value = last.arg[<<result.name_loc, result.loc_path>>]
        /\ result.op = "load"
              => \A k \in DOMAIN last.arg :
                    Lookup(result.value, k) = last.arg[k]

C2_Witness ==
    /\ SavedOk
    /\ result.op = "get"
    /\ LET k == <<result.name_loc, result.loc_path>> IN
         /\ k \in DOMAIN last.arg
         /\ last.arg[k] # {}
         /\ GetMappingsForLocman(pre, k[1], k[2]) \ last.arg[k] # {}

\* C3: when a save_mappings batch fails, the failure reaches the caller and
\* the committed rows equal the rows before the call; while the batch runs
\* nothing of it is committed.
C3_FailedSaveRollsBack ==
    /\ SaveRaised => table = pre
    /\ pc = "saving" => table = pre

C3_Witness ==
    /\ SaveRaised
    /\ last.dirty
    /\ last.progress = 2
    /\ pre # {}

\* C4 as stated: delete_mappings(name, path) with both arguments supplied
\* removes exactly the rows of identity (name, path), leaves every other row
\* unchanged and returns the number of rows removed.
C4_DeleteExactIdentity ==
    (last.op = "delete" /\ last.name_loc # Omitted /\ last.loc_path # Omitted)
        => LET own == RowsWhere(pre, last.name_loc[1], last.loc_path[1]) IN
             /\ table = pre \ own
             /\ last.ret = Cardinality(own)

\* C5 as stated: delete_mappings clears the whole store (count becomes 0, the
\* previous row count is returned) when an argument is omitted, and with both
\* arguments supplied it never removes a row of another identity.
C5_ClearExactlyWhenOmitted ==
    last.op = "delete" =>
        IF last.name_loc = Omitted \/ last.loc_path = Omitted
        THEN /\ table = {}
             /\ last.ret = Cardinality(pre)
             /\ result.op = "count" => result.value = 0
        ELSE \A r \in pre :
                IdentityOf(r) # <<last.name_loc[1], last.loc_path[1]>>
                    => r \in table

\* C6: save_mappings leaves every row whose identity is not a key of its
\* argument unchanged, during the batch, after success and after failure.
OtherRows(rows, m) == {r \in rows : IdentityOf(r) \notin DOMAIN m}

C6_SaveFrame ==
    /\ last.op = "save" => OtherRows(table, last.arg) = OtherRows(pre, last.arg)
    /\ pc = "saving" =>
          /\ OtherRows(txn, frame.mappings) = OtherRows(pre, frame.mappings)
          /\ OtherRows(table, frame.mappings) = OtherRows(pre, frame.mappings)

C6_Witness ==
    /\ SavedOk
    /\ last.dirty
    /\ DOMAIN last.arg # {}
    /\ OtherRows(pre, last.arg) # {}

(***************************************************************************)
(* Claims about the Matcher (checked under SpecMatch)                      *)
(***************************************************************************)
Done == mpc = "done"
Range(s) == {s[i] : i \in 1..Len(s)}
Count(s, x) == Cardinality({i \in 1..Len(s) : s[i] = x})

\* the 1C rows after the header, by index, and the ones taking part
DataIdx == 2..Len(data_1c)
NamedIdx == {j \in DataIdx : Len(data_1c[j]) >= 2}
KeyedIdx == {j \in NamedIdx : normalize_string(data_1c[j][2]) # <<>>}

\* symmetric containment of two keys
SymContain(a, b) == Contains(a, b) \/ Contains(b, a)

EntryIds == {<<loc_entries[i][1], loc_entries[i][3]>> : i \in 1..Len(loc_entries)}
EntryCount(id) ==
    Cardinality({i \in 1..Len(loc_entries) :
                    <<loc_entries[i][1], loc_entries[i][3]>> = id})
MatchedIds == {<<t[2], t[3]>> : t \in Range(matches)}
Matched1C == {t[1] : t \in Range(matches)}

\* the unmatched-Locman list is the complement of the match set
LocmanComplement ==
    \A id \in EntryIds \cup Range(nomatches) :
        Count(nomatches, id) = IF id \in MatchedIds THEN 0 ELSE EntryCount(id)

\* C7 as stated: every 1C row after the header whose display name is in no
\* MatchPair is in nomatches_1c once per occurrence, no matched one is, and
\* likewise for the Locman entries and nomatches.
C7_ComplementsAsStated ==
    Done =>
        /\ \A n \in {data_1c[j][2] : j \in NamedIdx} \cup Range(nomatches_1c) :
              Count(nomatches_1c, n) =
                 IF n \in Matched1C THEN 0
                 ELSE Cardinality({j \in NamedIdx : data_1c[j][2] = n})
        /\ LocmanComplement

\* C7 amended: every 1C row after the header that has at least 2 columns and
\* a non-empty normalized name, and whose name is in no MatchPair, is in
\* nomatches_1c once per occurrence; no other name is in nomatches_1c; the
\* Locman entries with no MatchPair are in nomatches once per occurrence and
\* no matched entry is.
C7_Complements ==
    Done =>
        /\ \A n \in {data_1c[j][2] : j \in NamedIdx} \cup Range(nomatches_1c) :
              Count(nomatches_1c, n) =
                 IF n \in Matched1C THEN 0
                 ELSE Cardinality({j \in KeyedIdx : data_1c[j][2] = n})
        /\ LocmanComplement

C7_Witness ==
    /\ Done
    /\ \E n \in Range(nomatches_1c) : Count(nomatches_1c, n) = 2
    /\ nomatches # <<>>

\* C8: matches holds one triple per pair of a Locman entry occurrence and a
\* 1C data row occurrence (2 columns, non-empty key) whose keys contain one
\* another in either direction, and nothing else; the relation is symmetric.
C8_MatchesExact ==
    Done =>
        /\ \A t \in Range(matches) \cup
                    {<<data_1c[j][2], id[1], id[2]>> : j \in KeyedIdx, id \in EntryIds} :
              Count(matches, t) =
                 Cardinality({q \in (1..Len(loc_entries)) \X KeyedIdx :
                     /\ loc_entries[q[1]][1] = t[2]
                     /\ loc_entries[q[1]][3] = t[3]
                     /\ data_1c[q[2]][2] = t[1]
                     /\ SymContain(normalize_string(t[2]), normalize_string(t[1]))})
        /\ \A i \in 1..Len(loc_entries), j \in KeyedIdx :
              LET a == loc_entries[i][2]
                  b == normalize_string(data_1c[j][2])
              IN KeysMatch(a, b) <=> KeysMatch(b, a)

C8_Witness ==
    /\ Done
    /\ Len(matches) >= 2
    /\ \E t \in Range(matches) :
          /\ ~Contains(normalize_string(t[2]), normalize_string(t[1]))
          /\ Contains(normalize_string(t[1]), normalize_string(t[2]))

\* the rows of file p that may become entries with name n: not the first
\* row, 5 columns, column index 4 not blank, no cell with the marker
PassingRows(n, p) ==
    IF p \notin DOMAIN files THEN {}
    ELSE {i \in 2..Len(files[p]) :
            LET row == files[p][i] IN
            /\ Len(row) >= 5
            /\ row[2] = n
            /\ ~IsBlank(row[5])
            /\ \A c \in 1..Len(row) : ~Contains(Marker, row[c])}

\* C9: a Locman row takes part in matching (as an entry, in matches, in
\* nomatches, as a key of locman_options) only if it is not the first row of
\* its file, has 5 columns, a non-blank column index 4 and no marker cell.
C9_LocmanFilter ==
    /\ \A id \in EntryIds :
          EntryCount(id) <= Cardinality(PassingRows(id[1], id[2]))
    /\ \A id \in MatchedIds \cup Range(nomatches) \cup DOMAIN locman_options :
          PassingRows(id[1], id[2]) # {}

C9_Witness ==
    /\ Done
    /\ matches # <<>>
    /\ \E i \in 2..Len(files["P"]) :
          LET row == files["P"][i] IN
          /\ Len(row) >= 5
          /\ IsBlank(row[5])
          /\ \E j \in KeyedIdx :
                SymContain(normalize_string(row[2]),
                           normalize_string(data_1c[j][2]))

\* the first 1C row with name n
FirstRow(n) ==
    CHOOSE j \in KeyedIdx :
        /\ data_1c[j][2] = n
        /\ \A h \in KeyedIdx : data_1c[h][2] = n => j <= h

\* C10: the keys of locman_options are the identities of the Locman entries;
\* each list holds the 1C names in a MatchPair with its identity, each once,
\* ordered by their first row in the 1C file; with no MatchPair it is empty.
C10_CandidateMap ==
    Done =>
        /\ DOMAIN locman_options = EntryIds
        /\ \A id \in DOMAIN locman_options :
              LET L == locman_options[id] IN
              /\ Range(L) = {t[1] : t \in {u \in Range(matches) :
                                              <<u[2], u[3]>> = id}}
              /\ \A i, j \in 1..Len(L) :
                    i < j => /\ L[i] # L[j]
                             /\ FirstRow(L[i]) < FirstRow(L[j])

C10_Witness ==
    /\ Done
    /\ \E id \in DOMAIN locman_options :
          locman_options[id] = <<Name1C_B, Name1C_AB>>

(***************************************************************************)
(* Claims about the Tabular Reader (checked under SpecRead)                *)
(***************************************************************************)
\* C11 as stated: when the read fails at any point, read_csv_file_simple
\* reports the failure (path and cause) through the supplied callback, does
\* not raise, and returns an empty sequence of rows.
C11_FailureGivesEmpty ==
    (rd.at = "returned" /\ rd.failed /\ rfile.callback)
        => /\ reported = <<<<"CSV read error", rfile.path>>>>
           /\ rd.ret = <<>>

(***************************************************************************)
(* Claims about concurrent saves (checked under SpecConc)                  *)
(***************************************************************************)
Returned(c) == callers[c].at = "ok"

\* the callers whose call returned and whose argument holds identity k
WritersOf(k) == {c \in Callers : Returned(c) /\ k \in DOMAIN callers[c].mappings}

CommitIndex(c) == CHOOSE i \in 1..Len(commits) : commits[i] = c

LastWriter(k) ==
    CHOOSE c \in WritersOf(k) :
        \A d \in WritersOf(k) : CommitIndex(d) <= CommitIndex(c)

\* C12: when two interleaved save_mappings calls have both ended, an identity
\* written by both returned calls holds exactly the set of the one that
\* committed last (no mixture, no loss), an identity written by one returned
\* call holds exactly that call's set, and a call that raised left nothing.
C12_LastWriterWins ==
    (\A c \in Callers : ~InProgress(c) /\ callers[c].at # "idle")
        => \A k \in Identities :
              GetMappingsForLocman(table, k[1], k[2]) =
                 IF WritersOf(k) = {} THEN {}
                 ELSE callers[LastWriter(k)].mappings[k]

\* both calls overlapped and returned; identity (A,P) was written by both
\* with different sets, identity (A,Q) by the first committer only
C12_Witness ==
    /\ overlap
    /\ Len(commits) = 2
    /\ LET first == callers[commits[1]].mappings
           second == callers[commits[2]].mappings
       IN /\ DOMAIN first = Identities
          /\ DOMAIN second = {<<"A", "P">>}
          /\ first[<<"A", "P">>] = {"c1", "c2"}
          /\ second[<<"A", "P">>] = {"c2"}
          /\ first[<<"A", "Q">>] = {"c1"}
          /\ GetMappingsForLocman(table, "A", "P") = {"c2"}
          /\ GetMappingsForLocman(table, "A", "Q") = {"c1"}

(***************************************************************************)
(* Claims about connections (checked under SpecHandles)                    *)
(***************************************************************************)
InOperation == pc = "saving" \/ hnd.at \in {"try", "finally"}

\* C13: every store operation opens its own connection and has closed it
\* when it returns or raises; between operations, after any sequence of
\* them, failing ones included, no connection is open.
C13_HandlesReleased == conns = IF InOperation THEN 1 ELSE 0

\* after a save that raised, a delete_mappings call raised as well and has
\* reached its caller
C13_Witness ==
    /\ ~InOperation
    /\ SaveRaised
    /\ last.dirty
    /\ hnd.op = "delete"
    /\ hnd.outcome = "raised"
    /\ conns = 0

(***************************************************************************)
(* Claims about the selection tab (checked under SpecTab and SpecGui)      *)
(***************************************************************************)
Shown == mpc = "shown"

\* C14: in every result of the comparison each identity of nomatches has an
\* empty candidate list and no identity with a candidate is in nomatches;
\* so no row of the selection tab has an option to offer, and selecting a
\* row creates no checkbox.
C14_NomatchHasNoOptions ==
    /\ (Done \/ Shown) =>
          /\ \A id \in Range(nomatches) :
                id \in DOMAIN locman_options /\ locman_options[id] = <<>>
          /\ \A id \in DOMAIN locman_options :
                locman_options[id] # <<>> => id \notin Range(nomatches)
    /\ Shown =>
          /\ \A id \in Range(locman_list_tree) :
                OptionsFor(locman_to_1c_options, id) = <<>>
          /\ checkboxes_dict = <<>>

\* a run with a matched and an unmatched identity is shown and the row of
\* the unmatched one has been selected
C14_Witness ==
    /\ Shown
    /\ selection \in Range(locman_list_tree)
    /\ \E id \in DOMAIN locman_to_1c_options :
          locman_to_1c_options[id] # <<>>

\* C15: in a session without another writer the selections in memory stay
\* the map load_mappings() returned at the start, whatever was compared,
\* selected and saved; so every successful save stores that map again and
\* the store's identity-to-set contents are those of the session's start.
C15_SessionSavesNothingNew ==
    /\ selected_mappings = saved_mappings
    /\ SavedOk =>
          /\ last.arg = saved_mappings
          /\ LoadMappings(table) = saved_mappings

\* a save succeeded after a row was selected in a run that has a matched
\* identity, in a session that started with stored mappings
C15_Witness ==
    /\ SavedOk
    /\ last.dirty
    /\ saved_mappings # <<>>
    /\ selection \in Range(locman_list_tree)
    /\ \E id \in DOMAIN locman_to_1c_options :
          locman_to_1c_options[id] # <<>>

====
